---- MODULE Spec2Model ----
(***************************************************************************)
(* Model of the gralloc buffer-handle manager (gralloc_priv.h and          *)
(* gralloc_module.cpp): the private_handle_t descriptor, its validation,   *)
(* and the registerBuffer / unregisterBuffer / lock / unlock entry points. *)
(* In Spec, SpecProc and SpecLife every entry point is one action; the     *)
(* calls it makes on the mutex, the allocator and the log are recorded, in *)
(* order, in the trace of the call. In SpecConc the threads of one process *)
(* run the entry points statement by statement around s_map_lock.          *)
(***************************************************************************)
EXTENDS Integers, Sequences, FiniteSets, TLC

\* ---------------------------------------------------------------- bounds
NumPids == 2
MaxAddr == 2
\* threads of the one process of SpecConc, and calls they make in total
NumThreads == 2
MaxCalls == 2

\* ------------------------------------------------------------- constants
SizeofNativeHandle == 12
sNumInts == 17
sNumFds == 1
sMagic == 51647890
EINVAL == 22
PRIV_FLAGS_FRAMEBUFFER == 1
PRIV_FLAGS_USES_ION_COMPOUND_HEAP == 2
PRIV_FLAGS_USES_ION == 4
PRIV_FLAGS_USES_ION_DMA_HEAP == 8
LOCK_STATE_MAPPED == 1073741824
LOCK_STATE_READ_MASK == 1073741823
GRALLOC_USAGE_SW_READ_MASK == 15
GRALLOC_USAGE_SW_WRITE_MASK == 240

\* ----------------------------------------------------------- input sets
Pids == 1..NumPids
Addrs == 1..MaxAddr
NULL == "NULL"
PTR == "PTR"
Args == {NULL, PTR}
\* the value the caller's access pointer holds before a lock call
Poison == -1
\* none, FRAMEBUFFER, FRAMEBUFFER+COMPOUND_HEAP, USES_ION, FRAMEBUFFER+USES_ION,
\* USES_ION+DMA_HEAP
FlagValues == {0, 1, 3, 4, 5, 12}
\* SW_READ_OFTEN, SW_WRITE_OFTEN, HW_TEXTURE, HW_TEXTURE+SW_WRITE_OFTEN
UsageValues == {3, 48, 256, 304}
\* what happens when unlock reaches for the allocator module
SyncEnvs == {"no_module", "sync_ok", "sync_failed"}
\* l, t, w, h of a lock call
Regions == {<<0, 0, 0, 0>>, <<1, 2, 3, 4>>}
Sizes == {4096}
LockStates == {0, 1, LOCK_STATE_MAPPED}

Threads == 1..NumThreads

VARIABLES
    hnd,        \* the handle
    last,       \* the latest call: arguments, handle before it, result, trace
    reg,        \* the process that last mapped the handle, and whether it unmapped it
    regd,       \* the processes that mapped the handle and did not unmap it since
    hist,       \* the lock calls made on the handle so far
    pc,         \* SpecConc: the statement each thread is at
    s_map_lock, \* SpecConc: the thread that holds the mutex, 0 if none
    loc,        \* SpecConc: each thread's call, its locals and its result
    mapped,     \* SpecConc: the addresses mapped in the process
    self,       \* SpecConc: getpid() of the process
    calls       \* SpecConc: calls begun so far

seqVars == <<regd, hist>>
concVars == <<pc, s_map_lock, loc, mapped, self, calls>>
vars == <<hnd, last, reg, regd, hist, pc, s_map_lock, loc, mapped, self, calls>>

\* C's & on non-negative ints
RECURSIVE BitAnd(_, _)
BitAnd(a, b) ==
    IF a = 0 \/ b = 0 THEN 0
    ELSE (a % 2) * (b % 2) + 2 * BitAnd(a \div 2, b \div 2)

Ev(e, a) == [ev |-> e, a |-> a]

\* ------------------------------------------------------ private_handle_t
\* the handle as its constructor leaves it, for the given arguments
private_handle_t(flags, size, base, lock_state, pid) ==
    [version |-> SizeofNativeHandle, numInts |-> sNumInts, numFds |-> sNumFds,
     magic |-> sMagic, flags |-> flags, size |-> size, base |-> base,
     lockState |-> lock_state, writeOwner |-> 0, pid |-> pid]

validate_NoVersion(arg, h) ==
    IF arg = NULL \/ h.numInts # sNumInts \/ h.numFds # sNumFds \/ h.magic # sMagic
    THEN -EINVAL
    ELSE 0

validate(arg, h) ==
    IF arg = NULL \/ h.version # SizeofNativeHandle \/ h.numInts # sNumInts
       \/ h.numFds # sNumFds \/ h.magic # sMagic
    THEN -EINVAL
    ELSE 0

dynamicCast(arg, h) ==
    IF validate(arg, h) = 0 THEN arg ELSE NULL

\* ------------------------------------------------------- flag predicates
IsFramebuffer_Never(h) == FALSE

IsFramebuffer(h) == BitAnd(h.flags, PRIV_FLAGS_FRAMEBUFFER) # 0

UsesIon(h) == BitAnd(h.flags, PRIV_FLAGS_USES_ION) # 0

OwnedByCaller_Always(h, pid) == TRUE

OwnedByCaller(h, pid) == h.pid = pid

StillLocked(h) == BitAnd(h.lockState, LOCK_STATE_READ_MASK) # 0

\* ------------------------------------------------------- registerBuffer
\* outcome 0: the mapping fails; outcome a in Addrs: it succeeds at address a
gralloc_backend_register(h, outcome) ==
    IF outcome = 0
    THEN [hnd |-> h, ret |-> -12, trace |-> <<Ev("map", 0), Ev("AERR", 0)>>]
    ELSE [hnd |-> [h EXCEPT !.base = outcome], ret |-> 0,
          trace |-> <<Ev("map", outcome)>>]

gralloc_register_buffer_PidFirst(arg, h, pid, outcome) ==
    LET h1 == [h EXCEPT !.pid = pid] IN
    IF validate(arg, h) < 0
    THEN [hnd |-> IF arg = NULL THEN h ELSE h1, ret |-> -EINVAL,
          trace |-> <<Ev("AERR", 68)>>]
    ELSE IF IsFramebuffer(h1)
    THEN [hnd |-> h1, ret |-> -EINVAL,
          trace |-> <<Ev("mutex_lock", 0), Ev("AERR", 101), Ev("mutex_unlock", 0)>>]
    ELSE IF UsesIon(h1)
    THEN LET r == gralloc_backend_register(h1, outcome) IN
         [hnd |-> r.hnd, ret |-> r.ret,
          trace |-> <<Ev("mutex_lock", 0)>> \o r.trace \o <<Ev("mutex_unlock", 0)>>]
    ELSE [hnd |-> h1, ret |-> -EINVAL,
          trace |-> <<Ev("mutex_lock", 0), Ev("AERR", 109), Ev("mutex_unlock", 0)>>]

gralloc_register_buffer(arg, h, pid, outcome) ==
    IF validate(arg, h) < 0
    THEN [hnd |-> h, ret |-> -EINVAL, trace |-> <<Ev("AERR", 68)>>]
    ELSE LET h1 == [h EXCEPT !.pid = pid] IN
         IF IsFramebuffer(h1)
         THEN [hnd |-> h1, ret |-> -EINVAL,
               trace |-> <<Ev("mutex_lock", 0), Ev("AERR", 101), Ev("mutex_unlock", 0)>>]
         ELSE IF UsesIon(h1)
         THEN LET r == gralloc_backend_register(h1, outcome) IN
              [hnd |-> r.hnd, ret |-> r.ret,
               trace |-> <<Ev("mutex_lock", 0)>> \o r.trace \o <<Ev("mutex_unlock", 0)>>]
         ELSE [hnd |-> h1, ret |-> -EINVAL,
               trace |-> <<Ev("mutex_lock", 0), Ev("AERR", 109), Ev("mutex_unlock", 0)>>]

\* ----------------------------------------------------- unregisterBuffer
\* the three stores that end the owner's branch
ClearMapping_OnUnmapSuccess(h, unmapOk) ==
    IF unmapOk THEN [h EXCEPT !.base = 0, !.lockState = 0, !.writeOwner = 0] ELSE h

ClearMapping_KeepWriteOwner(h, unmapOk) ==
    [h EXCEPT !.base = 0, !.lockState = 0]

ClearMapping(h, unmapOk) ==
    [h EXCEPT !.base = 0, !.lockState = 0, !.writeOwner = 0]

\* unmapOk: whether munmap succeeds, when it is called
gralloc_unregister_buffer(arg, h, pid, unmapOk) ==
    IF validate(arg, h) < 0
    THEN [hnd |-> h, ret |-> -EINVAL, trace |-> <<Ev("AERR", 122)>>]
    ELSE LET diag == IF StillLocked(h) THEN <<Ev("AERR", 128)>> ELSE <<>> IN
         IF IsFramebuffer(h)
         THEN [hnd |-> h, ret |-> 0, trace |-> diag \o <<Ev("AERR", 132)>>]
         ELSE IF OwnedByCaller(h, pid)
         THEN [hnd |-> ClearMapping(h, unmapOk), ret |-> 0,
               trace |-> diag \o <<Ev("mutex_lock", 0)>>
                         \o (IF UsesIon(h)
                             THEN <<Ev("munmap", h.base)>>
                                  \o (IF unmapOk THEN <<>> ELSE <<Ev("AERR", 146)>>)
                             ELSE <<Ev("AERR", 156)>>)
                         \o <<Ev("mutex_unlock", 0)>>]
         ELSE [hnd |-> h, ret |-> 0, trace |-> diag \o <<Ev("AERR", 167)>>]

\* ----------------------------------------------------------------- lock
WantsCpuWrite_ReadMask(usage) == BitAnd(usage, GRALLOC_USAGE_SW_READ_MASK)

WantsCpuWrite(usage) == BitAnd(usage, GRALLOC_USAGE_SW_WRITE_MASK)

WantsCpuAccess_Always(usage) == TRUE

WantsCpuAccess(usage) ==
    BitAnd(usage, GRALLOC_USAGE_SW_READ_MASK + GRALLOC_USAGE_SW_WRITE_MASK) # 0

gralloc_lock_RejectUnmapped(arg, h, usage, region, vin) ==
    IF validate(arg, h) < 0 \/ h.base = 0
    THEN [hnd |-> h, ret |-> -EINVAL, trace |-> <<Ev("AERR", 183)>>, vout |-> vin]
    ELSE LET h1 == IF UsesIon(h) THEN [h EXCEPT !.writeOwner = WantsCpuWrite(usage)]
                   ELSE h IN
         [hnd |-> h1, ret |-> 0, trace |-> <<>>,
          vout |-> IF WantsCpuAccess(usage) THEN h1.base ELSE vin]

\* vin: what *vaddr holds on entry; vout: what it holds on return
gralloc_lock(arg, h, usage, region, vin) ==
    IF validate(arg, h) < 0
    THEN [hnd |-> h, ret |-> -EINVAL, trace |-> <<Ev("AERR", 183)>>, vout |-> vin]
    ELSE LET h1 == IF UsesIon(h) THEN [h EXCEPT !.writeOwner = WantsCpuWrite(usage)]
                   ELSE h IN
         [hnd |-> h1, ret |-> 0, trace |-> <<>>,
          vout |-> IF WantsCpuAccess(usage) THEN h1.base ELSE vin]

\* --------------------------------------------------------------- unlock
NeedsSync_IgnoreOwner(h) == UsesIon(h)

NeedsSync(h) == UsesIon(h) /\ h.writeOwner # 0

gralloc_unlock_ClearsOwner(arg, h, env) ==
    IF validate(arg, h) < 0
    THEN [hnd |-> h, ret |-> -EINVAL, trace |-> <<Ev("AERR", 208)>>]
    ELSE IF NeedsSync(h)
    THEN [hnd |-> [h EXCEPT !.writeOwner = 0], ret |-> 0,
          trace |-> IF env = "no_module"
                    THEN <<Ev("hw_get_module", -1), Ev("AERR", 230)>>
                    ELSE <<Ev("hw_get_module", 0),
                           Ev("sync", IF env = "sync_ok" THEN 0 ELSE -1)>>]
    ELSE [hnd |-> h, ret |-> 0, trace |-> <<>>]

\* env: whether hw_get_module resolves the module and, if so, how ion_sync_fd ends
gralloc_unlock(arg, h, env) ==
    IF validate(arg, h) < 0
    THEN [hnd |-> h, ret |-> -EINVAL, trace |-> <<Ev("AERR", 208)>>]
    ELSE IF NeedsSync(h)
    THEN [hnd |-> h, ret |-> 0,
          trace |-> IF env = "no_module"
                    THEN <<Ev("hw_get_module", -1), Ev("AERR", 230)>>
                    ELSE <<Ev("hw_get_module", 0),
                           Ev("sync", IF env = "sync_ok" THEN 0 ELSE -1)>>]
    ELSE [hnd |-> h, ret |-> 0, trace |-> <<>>]

\* ----------------------------------------------------------- the system
NoRegion == <<0, 0, 0, 0>>
NoReg == [pid |-> 0, phase |-> "none"]
NoHist == [lastLock |-> "none", outstanding |-> FALSE, cleared |-> FALSE]
NoLoc == [op |-> "none", usage |-> 0, ret |-> 0, vaddr |-> Poison, under |-> 0]

\* no thread is inside a call
ConcIdle ==
    /\ pc = [t \in Threads |-> "idle"]
    /\ s_map_lock = 0
    /\ loc = [t \in Threads |-> NoLoc]
    /\ mapped = {}
    /\ self = 1
    /\ calls = 0

\* no call was made yet
SeqIdle ==
    /\ reg = NoReg
    /\ regd = {}
    /\ hist = NoHist

Call(op, arg, caller, usage, region, env, pre, r, vin, vout) ==
    [op |-> op, arg |-> arg, caller |-> caller, usage |-> usage, region |-> region,
     env |-> env, pre |-> pre, ret |-> r.ret, trace |-> r.trace,
     vin |-> vin, vout |-> vout, preReg |-> reg, preRegd |-> regd, preHist |-> hist]

NoCall(h) ==
    [op |-> "none", arg |-> NULL, caller |-> 0, usage |-> 0, region |-> NoRegion,
     env |-> "none", pre |-> h, ret |-> 0, trace |-> <<>>,
     vin |-> Poison, vout |-> Poison, preReg |-> NoReg, preRegd |-> {},
     preHist |-> NoHist]

\* a handle as it arrives: built by the constructor in some process, possibly
\* with an envelope or a magic that is not this module's
Received(version, numInts, numFds, magic, flags, size, base, ls, pid) ==
    [private_handle_t(flags, size, base, ls, pid)
       EXCEPT !.version = version, !.numInts = numInts,
              !.numFds = numFds, !.magic = magic]

\* the well-formed envelope and the four envelopes with one field off
Envelopes ==
    {<<SizeofNativeHandle, sNumInts, sNumFds, sMagic>>,
     <<0, sNumInts, sNumFds, sMagic>>,
     <<SizeofNativeHandle, sNumInts - 1, sNumFds, sMagic>>,
     <<SizeofNativeHandle, sNumInts, 0, sMagic>>,
     <<SizeofNativeHandle, sNumInts, sNumFds, 0>>}

Init ==
    /\ \E e \in Envelopes, flags \in FlagValues, size \in Sizes,
          base \in {0} \cup Addrs, ls \in LockStates, pid \in Pids :
          hnd = Received(e[1], e[2], e[3], e[4], flags, size, base, ls, pid)
    /\ last = NoCall(hnd)
    /\ SeqIdle
    /\ ConcIdle

Register(arg, pid, outcome) ==
    LET r == gralloc_register_buffer(arg, hnd, pid, outcome) IN
    /\ hnd' = r.hnd
    /\ last' = Call("register", arg, pid, 0, NoRegion, "none", hnd, r, Poison, Poison)
    /\ reg' = IF r.ret = 0 THEN [pid |-> pid, phase |-> "registered"] ELSE reg
    /\ UNCHANGED <<seqVars, concVars>>

Unregister(arg, pid, unmapOk) ==
    LET r == gralloc_unregister_buffer(arg, hnd, pid, unmapOk) IN
    /\ hnd' = r.hnd
    /\ last' = Call("unregister", arg, pid, 0, NoRegion, "none", hnd, r, Poison, Poison)
    /\ reg' = IF /\ \E i \in 1..Len(r.trace) : r.trace[i].ev = "mutex_lock"
                 /\ reg = [pid |-> pid, phase |-> "registered"]
              THEN [pid |-> pid, phase |-> "unregistered"]
              ELSE reg
    /\ UNCHANGED <<seqVars, concVars>>

Lock(arg, usage, region) ==
    LET r == gralloc_lock(arg, hnd, usage, region, Poison) IN
    /\ hnd' = r.hnd
    /\ last' = Call("lock", arg, 0, usage, region, "none", hnd, r, Poison, r.vout)
    /\ UNCHANGED <<reg, seqVars, concVars>>

Unlock(arg, env) ==
    LET r == gralloc_unlock(arg, hnd, env) IN
    /\ hnd' = r.hnd
    /\ last' = Call("unlock", arg, 0, 0, NoRegion, env, hnd, r, Poison, Poison)
    /\ UNCHANGED <<reg, seqVars, concVars>>

Next ==
    \/ \E arg \in Args, pid \in Pids, outcome \in {0} \cup Addrs :
          Register(arg, pid, outcome)
    \/ \E arg \in Args, pid \in Pids, unmapOk \in BOOLEAN :
          Unregister(arg, pid, unmapOk)
    \/ \E arg \in Args, usage \in UsageValues, region \in Regions :
          Lock(arg, usage, region)
    \/ \E arg \in Args, env \in SyncEnvs :
          Unlock(arg, env)

Spec == Init /\ [][Next]_vars

\* ------------------------------------------- validate as a pure function
\* every combination of a right and a wrong value of the four checked fields
InitValidate ==
    /\ \E version \in {SizeofNativeHandle, 0}, numInts \in {sNumInts, sNumInts - 1},
          numFds \in {sNumFds, 0}, magic \in {sMagic, 0},
          flags \in FlagValues, size \in Sizes, base \in {0} \cup Addrs,
          ls \in LockStates, pid \in Pids :
          hnd = Received(version, numInts, numFds, magic, flags, size, base, ls, pid)
    /\ last = NoCall(hnd)
    /\ SeqIdle
    /\ ConcIdle

Validate(arg) ==
    /\ last' = Call("validate", arg, 0, 0, NoRegion, "none", hnd,
                    [ret |-> validate(arg, hnd), trace |-> <<>>], Poison, Poison)
    /\ UNCHANGED <<hnd, reg, seqVars, concVars>>

\* ret 1: the typed view of the handle is returned; ret 0: NULL is
DynamicCast(arg) ==
    /\ last' = Call("dynamicCast", arg, 0, 0, NoRegion, "none", hnd,
                    [ret |-> IF dynamicCast(arg, hnd) = NULL THEN 0 ELSE 1,
                     trace |-> <<>>], Poison, Poison)
    /\ UNCHANGED <<hnd, reg, seqVars, concVars>>

NextValidate ==
    \/ \E arg \in Args : Validate(arg)
    \/ \E arg \in Args : DynamicCast(arg)

SpecValidate == InitValidate /\ [][NextValidate]_vars

\* ------------------------------ the calls with their history (SpecLife)
\* the entry points as in Spec; hist keeps whether the latest successful lock
\* asked for CPU write access, whether an unlock followed it, and whether the
\* owner's branch of unregister ran since
TookMutex(r) == \E i \in 1..Len(r.trace) : r.trace[i].ev = "mutex_lock"

\* none, FRAMEBUFFER, USES_ION, FRAMEBUFFER+USES_ION
LifeFlags == {0, 1, 4, 5}

\* a well-formed handle or one whose magic was cleared, not locked or with one
\* reader recorded in lockState
InitLife ==
    /\ \E magic \in {sMagic, 0}, flags \in LifeFlags, size \in Sizes,
          base \in {0} \cup Addrs, ls \in {0, 1}, pid \in Pids :
          hnd = Received(SizeofNativeHandle, sNumInts, sNumFds, magic,
                         flags, size, base, ls, pid)
    /\ last = NoCall(hnd)
    /\ SeqIdle
    /\ ConcIdle

LifeRegister(arg, pid, outcome) ==
    LET r == gralloc_register_buffer(arg, hnd, pid, outcome) IN
    /\ hnd' = r.hnd
    /\ last' = Call("register", arg, pid, 0, NoRegion, "none", hnd, r, Poison, Poison)
    /\ reg' = IF r.ret = 0 THEN [pid |-> pid, phase |-> "registered"] ELSE reg
    /\ UNCHANGED <<seqVars, concVars>>

LifeUnregister(arg, pid, unmapOk) ==
    LET r == gralloc_unregister_buffer(arg, hnd, pid, unmapOk) IN
    /\ hnd' = r.hnd
    /\ last' = Call("unregister", arg, pid, 0, NoRegion, "none", hnd, r, Poison, Poison)
    /\ reg' = IF TookMutex(r) /\ reg = [pid |-> pid, phase |-> "registered"]
              THEN [pid |-> pid, phase |-> "unregistered"]
              ELSE reg
    /\ hist' = IF TookMutex(r) /\ hist.lastLock # "none"
               THEN [hist EXCEPT !.cleared = TRUE]
               ELSE hist
    /\ UNCHANGED <<regd, concVars>>

LifeLock(arg, usage, region) ==
    LET r == gralloc_lock(arg, hnd, usage, region, Poison) IN
    /\ hnd' = r.hnd
    /\ last' = Call("lock", arg, 0, usage, region, "none", hnd, r, Poison, r.vout)
    /\ hist' = IF r.ret = 0
               THEN [lastLock |-> IF (usage \div 16) % 16 # 0 THEN "write" ELSE "read",
                     outstanding |-> TRUE, cleared |-> FALSE]
               ELSE hist
    /\ UNCHANGED <<reg, regd, concVars>>

LifeUnlock(arg, env) ==
    LET r == gralloc_unlock(arg, hnd, env) IN
    /\ hnd' = r.hnd
    /\ last' = Call("unlock", arg, 0, 0, NoRegion, env, hnd, r, Poison, Poison)
    /\ hist' = IF r.ret = 0 THEN [hist EXCEPT !.outstanding = FALSE] ELSE hist
    /\ UNCHANGED <<reg, regd, concVars>>

NextLife ==
    \/ \E arg \in Args, pid \in Pids, outcome \in {0} \cup Addrs :
          LifeRegister(arg, pid, outcome)
    \/ \E arg \in Args, pid \in Pids, unmapOk \in BOOLEAN :
          LifeUnregister(arg, pid, unmapOk)
    \/ \E arg \in Args, usage \in UsageValues, region \in Regions :
          LifeLock(arg, usage, region)
    \/ \E arg \in Args, env \in SyncEnvs :
          LifeUnlock(arg, env)

SpecLife == InitLife /\ [][NextLife]_vars

\* ------------------------- the calls of several processes (SpecProc)
\* the entry points as in Spec, lock too with the process that calls it; regd
\* keeps the processes whose register succeeded and whose unregister has not
\* taken the owner's branch since
ProcRegister(arg, pid, outcome) ==
    LET r == gralloc_register_buffer(arg, hnd, pid, outcome) IN
    /\ hnd' = r.hnd
    /\ last' = Call("register", arg, pid, 0, NoRegion, "none", hnd, r, Poison, Poison)
    /\ regd' = IF r.ret = 0 THEN regd \cup {pid} ELSE regd
    /\ UNCHANGED <<reg, hist, concVars>>

ProcUnregister(arg, pid, unmapOk) ==
    LET r == gralloc_unregister_buffer(arg, hnd, pid, unmapOk) IN
    /\ hnd' = r.hnd
    /\ last' = Call("unregister", arg, pid, 0, NoRegion, "none", hnd, r, Poison, Poison)
    /\ regd' = IF TookMutex(r) THEN regd \ {pid} ELSE regd
    /\ UNCHANGED <<reg, hist, concVars>>

ProcLock(arg, pid, usage, region) ==
    LET r == gralloc_lock(arg, hnd, usage, region, Poison) IN
    /\ hnd' = r.hnd
    /\ last' = Call("lock", arg, pid, usage, region, "none", hnd, r, Poison, r.vout)
    /\ UNCHANGED <<reg, seqVars, concVars>>

ProcUnlock(arg, pid, env) ==
    LET r == gralloc_unlock(arg, hnd, env) IN
    /\ hnd' = r.hnd
    /\ last' = Call("unlock", arg, pid, 0, NoRegion, env, hnd, r, Poison, Poison)
    /\ UNCHANGED <<reg, seqVars, concVars>>

NextProc ==
    \/ \E arg \in Args, pid \in Pids, outcome \in {0} \cup Addrs :
          ProcRegister(arg, pid, outcome)
    \/ \E arg \in Args, pid \in Pids, unmapOk \in BOOLEAN :
          ProcUnregister(arg, pid, unmapOk)
    \/ \E arg \in Args, pid \in Pids, usage \in UsageValues, region \in Regions :
          ProcLock(arg, pid, usage, region)
    \/ \E arg \in Args, pid \in Pids, env \in SyncEnvs :
          ProcUnlock(arg, pid, env)

SpecProc == InitLife /\ [][NextProc]_vars

\* ------------------------------------ the threads of one process (SpecConc)
\* pthread_mutex_lock returns once no thread holds the mutex
MutexAvailable_Always(m) == TRUE

MutexAvailable(m) == m = 0

\* gralloc_lock and gralloc_unlock have no pthread_mutex_lock: their statements
\* run whatever thread holds s_map_lock
LockUnlockMayRun_MutexFree(m, t) == m = 0 \/ m = t

LockUnlockMayRun(m, t) == TRUE

\* the statements of the four entry points, in program order
RegisterPcs == {"r_validate", "r_mutex", "r_pid", "r_map", "r_unlock"}
UnregisterPcs == {"u_validate", "u_diag", "u_branch", "u_mutex", "u_unmap",
                  "u_base", "u_lockState", "u_writeOwner", "u_unlock"}
LockPcs == {"l_validate", "l_writeOwner", "l_vaddr"}
UnlockPcs == {"k_validate", "k_sync"}
FirstPc == [register |-> "r_validate", unregister |-> "u_validate",
            lock |-> "l_validate", unlock |-> "k_validate"]

Goto(t, p) == pc' = [pc EXCEPT ![t] = p]

\* the call returns r and its locals are gone; what lock stored through vaddr,
\* and which thread held the mutex when that call began, stay with the caller
Return(t, r) ==
    /\ pc' = [pc EXCEPT ![t] = "idle"]
    /\ loc' = [loc EXCEPT ![t] = IF loc[t].op = "lock" /\ r = 0
                                 THEN [@ EXCEPT !.usage = 0] ELSE NoLoc]

\* none, FRAMEBUFFER, USES_ION
ConcFlags == {0, 1, 4}
\* SW_READ_OFTEN, SW_WRITE_OFTEN
ConcUsages == {3, 48}

\* a handle made in this process (its base, if any, is mapped here) or received
\* from another one (its base means nothing here)
InitConc ==
    /\ self = 1
    /\ \E magic \in {sMagic, 0}, flags \in ConcFlags, size \in Sizes,
          base \in {0, 1}, pid \in {self, self + 1} :
          /\ hnd = Received(SizeofNativeHandle, sNumInts, sNumFds, magic,
                            flags, size, base, 1, pid)
          /\ mapped = IF pid = self THEN {base} \ {0} ELSE {}
    /\ last = NoCall(hnd)
    /\ SeqIdle
    /\ pc = [t \in Threads |-> "idle"]
    /\ s_map_lock = 0
    /\ loc = [t \in Threads |-> NoLoc]
    /\ calls = 0

\* a thread enters one of the entry points with the handle
Begin(t, op, usage) ==
    /\ pc[t] = "idle"
    /\ calls < MaxCalls
    /\ calls' = calls + 1
    /\ pc' = [pc EXCEPT ![t] = FirstPc[op]]
    /\ loc' = [loc EXCEPT ![t] = [op |-> op, usage |-> usage, ret |-> 0,
                                  vaddr |-> Poison, under |-> s_map_lock]]
    /\ UNCHANGED <<hnd, last, reg, seqVars, s_map_lock, mapped, self>>

\* lines 66-70 and 120-124
StepValidate(t) ==
    /\ pc[t] \in {"r_validate", "u_validate"}
    /\ IF validate(PTR, hnd) < 0
       THEN Return(t, -EINVAL)
       ELSE /\ Goto(t, IF pc[t] = "r_validate" THEN "r_mutex" ELSE "u_diag")
            /\ UNCHANGED loc
    /\ UNCHANGED <<hnd, last, reg, seqVars, s_map_lock, mapped, self, calls>>

\* lines 181-185 and 206-210
StepLockValidate(t) ==
    /\ pc[t] \in {"l_validate", "k_validate"}
    /\ LockUnlockMayRun(s_map_lock, t)
    /\ IF validate(PTR, hnd) < 0
       THEN Return(t, -EINVAL)
       ELSE /\ Goto(t, IF pc[t] = "l_validate" THEN "l_writeOwner" ELSE "k_sync")
            /\ UNCHANGED loc
    /\ UNCHANGED <<hnd, last, reg, seqVars, s_map_lock, mapped, self, calls>>

\* lines 77 and 136
StepMutexLock(t) ==
    /\ pc[t] \in {"r_mutex", "u_mutex"}
    /\ MutexAvailable(s_map_lock)
    /\ s_map_lock' = t
    /\ Goto(t, IF pc[t] = "r_mutex" THEN "r_pid" ELSE "u_unmap")
    /\ UNCHANGED <<hnd, last, reg, seqVars, loc, mapped, self, calls>>

\* line 97
StepRegisterPid(t) ==
    /\ pc[t] = "r_pid"
    /\ hnd' = [hnd EXCEPT !.pid = self]
    /\ Goto(t, "r_map")
    /\ UNCHANGED <<last, reg, seqVars, s_map_lock, loc, mapped, self, calls>>

\* lines 99-110; the mapping lands on an address that is not mapped yet (which
\* one does not matter to the threads: the lowest), or fails
StepRegisterMap(t, outcome) ==
    /\ pc[t] = "r_map"
    /\ outcome \notin mapped
    /\ \A a \in Addrs \ mapped : outcome <= a
    /\ IF IsFramebuffer(hnd) \/ ~UsesIon(hnd)
       THEN /\ loc' = [loc EXCEPT ![t].ret = -EINVAL]
            /\ UNCHANGED <<hnd, mapped>>
       ELSE LET r == gralloc_backend_register(hnd, outcome) IN
            /\ hnd' = r.hnd
            /\ loc' = [loc EXCEPT ![t].ret = r.ret]
            /\ mapped' = IF outcome = 0 THEN mapped ELSE mapped \cup {outcome}
    /\ Goto(t, "r_unlock")
    /\ UNCHANGED <<last, reg, seqVars, s_map_lock, self, calls>>

\* lines 112-113 and 163-170
StepMutexUnlock(t) ==
    /\ pc[t] \in {"r_unlock", "u_unlock"}
    /\ s_map_lock' = 0
    /\ Return(t, IF pc[t] = "r_unlock" THEN loc[t].ret ELSE 0)
    /\ UNCHANGED <<hnd, last, reg, seqVars, mapped, self, calls>>

\* line 128
StepUnregisterDiag(t) ==
    /\ pc[t] = "u_diag"
    /\ Goto(t, "u_branch")
    /\ UNCHANGED <<hnd, last, reg, seqVars, s_map_lock, loc, mapped, self, calls>>

\* lines 130-134 and 165-170
StepUnregisterBranch(t) ==
    /\ pc[t] = "u_branch"
    /\ IF ~IsFramebuffer(hnd) /\ OwnedByCaller(hnd, self)
       THEN Goto(t, "u_mutex") /\ UNCHANGED loc
       ELSE Return(t, 0)
    /\ UNCHANGED <<hnd, last, reg, seqVars, s_map_lock, mapped, self, calls>>

\* lines 138-157
StepUnregisterUnmap(t, unmapOk) ==
    /\ pc[t] = "u_unmap"
    /\ mapped' = IF UsesIon(hnd) /\ unmapOk THEN mapped \ {hnd.base} ELSE mapped
    /\ Goto(t, "u_base")
    /\ UNCHANGED <<hnd, last, reg, seqVars, s_map_lock, loc, self, calls>>

\* lines 159, 160, 161
StepUnregisterClear(t) ==
    /\ pc[t] \in {"u_base", "u_lockState", "u_writeOwner"}
    /\ hnd' = CASE pc[t] = "u_base" -> [hnd EXCEPT !.base = 0]
                [] pc[t] = "u_lockState" -> [hnd EXCEPT !.lockState = 0]
                [] pc[t] = "u_writeOwner" -> [hnd EXCEPT !.writeOwner = 0]
    /\ Goto(t, CASE pc[t] = "u_base" -> "u_lockState"
                 [] pc[t] = "u_lockState" -> "u_writeOwner"
                 [] pc[t] = "u_writeOwner" -> "u_unlock")
    /\ UNCHANGED <<last, reg, seqVars, s_map_lock, loc, mapped, self, calls>>

\* lines 189-192
StepLockWriteOwner(t) ==
    /\ pc[t] = "l_writeOwner"
    /\ LockUnlockMayRun(s_map_lock, t)
    /\ hnd' = IF UsesIon(hnd)
              THEN [hnd EXCEPT !.writeOwner = WantsCpuWrite(loc[t].usage)]
              ELSE hnd
    /\ Goto(t, "l_vaddr")
    /\ UNCHANGED <<last, reg, seqVars, s_map_lock, loc, mapped, self, calls>>

\* lines 194-199
StepLockVaddr(t) ==
    /\ pc[t] = "l_vaddr"
    /\ LockUnlockMayRun(s_map_lock, t)
    /\ pc' = [pc EXCEPT ![t] = "idle"]
    /\ loc' = [loc EXCEPT ![t].usage = 0,
                          ![t].vaddr = IF WantsCpuAccess(loc[t].usage)
                                       THEN hnd.base ELSE @]
    /\ UNCHANGED <<hnd, last, reg, seqVars, s_map_lock, mapped, self, calls>>

\* lines 217-236
StepUnlockSync(t, env) ==
    /\ pc[t] = "k_sync"
    /\ LockUnlockMayRun(s_map_lock, t)
    /\ Return(t, 0)
    /\ UNCHANGED <<hnd, last, reg, seqVars, s_map_lock, mapped, self, calls>>

\* the next statement of thread t inside register or unregister
RegUnregStep(t) ==
    \/ StepValidate(t)
    \/ StepMutexLock(t)
    \/ StepRegisterPid(t)
    \/ \E outcome \in {0} \cup Addrs : StepRegisterMap(t, outcome)
    \/ StepMutexUnlock(t)
    \/ StepUnregisterDiag(t)
    \/ StepUnregisterBranch(t)
    \/ \E unmapOk \in BOOLEAN : StepUnregisterUnmap(t, unmapOk)
    \/ StepUnregisterClear(t)

\* the next statement of thread t inside lock or unlock
LockUnlockStep(t) ==
    \/ StepLockValidate(t)
    \/ StepLockWriteOwner(t)
    \/ StepLockVaddr(t)
    \/ \E env \in SyncEnvs : StepUnlockSync(t, env)

ThreadStep(t) == RegUnregStep(t) \/ LockUnlockStep(t)

NextConc ==
    \/ \E t \in Threads, op \in {"register", "unregister", "unlock"} : Begin(t, op, 0)
    \/ \E t \in Threads, usage \in ConcUsages : Begin(t, "lock", usage)
    \/ \E t \in Threads : ThreadStep(t)

\* a thread inside a call is scheduled again; nothing obliges it to begin a call
FairConc == \A t \in Threads : WF_vars(ThreadStep(t))

SpecConc == InitConc /\ [][NextConc]_vars /\ FairConc

\* the threads of the process call register and unregister only
NextMutex ==
    \/ \E t \in Threads, op \in {"register", "unregister"} : Begin(t, op, 0)
    \/ \E t \in Threads : RegUnregStep(t)

SpecMutex == InitConc /\ [][NextMutex]_vars
             /\ \A t \in Threads : WF_vars(RegUnregStep(t))

\* ------------------------------------------------------------ properties
Has(tr, e) == \E i \in 1..Len(tr) : tr[i].ev = e

Count(tr, e) == Cardinality({i \in 1..Len(tr) : tr[i].ev = e})

\* the last call was given a non-null handle whose envelope and magic are right
PreValid ==
    /\ last.arg = PTR
    /\ last.pre.version = SizeofNativeHandle
    /\ last.pre.numInts = sNumInts
    /\ last.pre.numFds = sNumFds
    /\ last.pre.magic = sMagic

PreFramebufferBit == last.pre.flags % 2 = 1

PreIonBit == (last.pre.flags \div 4) % 2 = 1

\* C1 (as stated): validate returns success if and only if magic, the integer
\* count and the descriptor count all equal the fixed constants, whatever the
\* envelope version is.
C1_Original ==
    (last.op = "validate" /\ last.arg = PTR) =>
        (last.ret = 0 <=> (/\ last.pre.magic = sMagic
                           /\ last.pre.numInts = sNumInts
                           /\ last.pre.numFds = sNumFds))

\* C1 (amended): validate returns success if and only if the handle is non-null,
\* its envelope version is the size of the envelope header, and magic, the
\* integer count and the descriptor count all equal the fixed constants; it
\* returns -EINVAL otherwise, and dynamicCast returns the handle exactly when
\* validate succeeds. No other field has a say.
C1_ValidateIff ==
    /\ last.op = "validate" =>
          /\ last.ret \in {0, -EINVAL}
          /\ last.ret = 0 <=> PreValid
    /\ last.op = "dynamicCast" => (last.ret = 1 <=> PreValid)
    /\ last.op \in {"validate", "dynamicCast"} => hnd = last.pre

C1_Witness ==
    /\ last.op = "validate"
    /\ last.arg = PTR
    /\ last.pre.version # SizeofNativeHandle
    /\ last.pre.magic = sMagic
    /\ last.pre.numInts = sNumInts
    /\ last.pre.numFds = sNumFds
    /\ last.ret = -EINVAL

\* C2: register, unregister, lock and unlock, called with a handle that fails
\* validation, return -EINVAL, call neither map, munmap nor the cache sync,
\* never take the module mutex, and leave the handle as it was.
C2_InvalidRejected ==
    (last.op \in {"register", "unregister", "lock", "unlock"} /\ ~PreValid) =>
        /\ last.ret = -EINVAL
        /\ ~Has(last.trace, "map")
        /\ ~Has(last.trace, "munmap")
        /\ ~Has(last.trace, "sync")
        /\ ~Has(last.trace, "mutex_lock")
        /\ hnd = last.pre
        /\ last.vout = last.vin

C2_Witness ==
    /\ last.op = "register"
    /\ last.arg = PTR
    /\ last.pre.magic # sMagic
    /\ last.pre.pid # last.caller
    /\ last.ret = -EINVAL

\* C3: on a valid handle whose framebuffer flag is set, register fails, neither
\* register nor unregister calls map or munmap, and base, lock state and
\* write-owner stay as they were.
C3_FramebufferRejected ==
    (last.op \in {"register", "unregister"} /\ PreValid /\ PreFramebufferBit) =>
        /\ last.op = "register" => last.ret < 0
        /\ ~Has(last.trace, "map")
        /\ ~Has(last.trace, "munmap")
        /\ hnd.base = last.pre.base
        /\ hnd.lockState = last.pre.lockState
        /\ hnd.writeOwner = last.pre.writeOwner

C3_Witness ==
    /\ last.op = "unregister"
    /\ PreValid
    /\ last.pre.flags = PRIV_FLAGS_FRAMEBUFFER + PRIV_FLAGS_USES_ION
    /\ last.pre.pid = last.caller
    /\ last.pre.base # 0
    /\ last.pre.writeOwner # 0

\* C4: unregister of a valid handle by a process other than the one recorded in
\* pid calls no munmap, leaves every field of the handle as it was, and returns 0.
C4_ForeignUnregisterNoop ==
    (last.op = "unregister" /\ PreValid /\ last.caller # last.pre.pid) =>
        /\ ~Has(last.trace, "munmap")
        /\ hnd = last.pre
        /\ last.ret = 0

C4_Witness ==
    /\ last.op = "unregister"
    /\ PreValid
    /\ last.caller # last.pre.pid
    /\ last.preReg = [pid |-> last.pre.pid, phase |-> "registered"]
    /\ PreIonBit /\ ~PreFramebufferBit
    /\ last.pre.base # 0
    /\ last.pre.writeOwner # 0

\* C5: unregister of a valid handle without the framebuffer flag, by the process
\* recorded in pid, returns 0 and leaves base, lock state and write-owner zero,
\* whether munmap succeeded or failed.
C5_OwnerUnregisterClears ==
    (/\ last.op = "unregister"
     /\ PreValid
     /\ ~PreFramebufferBit
     /\ last.caller = last.pre.pid) =>
        /\ hnd.base = 0
        /\ hnd.lockState = 0
        /\ hnd.writeOwner = 0
        /\ last.ret = 0

C5_Witness ==
    /\ last.op = "unregister"
    /\ PreValid
    /\ ~PreFramebufferBit
    /\ last.caller = last.pre.pid
    /\ Has(last.trace, "munmap")
    /\ \E i \in 1..Len(last.trace) : last.trace[i] = Ev("AERR", 146)
    /\ last.pre.base # 0
    /\ last.pre.lockState # 0
    /\ last.pre.writeOwner # 0

\* C6: once process P has registered a handle and then unregistered it, a
\* further unregister by P calls no munmap, changes no field and returns 0.
C6_SecondUnregisterNoop ==
    (/\ last.op = "unregister"
     /\ PreValid
     /\ last.preReg = [pid |-> last.caller, phase |-> "unregistered"]) =>
        /\ ~Has(last.trace, "munmap")
        /\ hnd = last.pre
        /\ last.ret = 0

\* C7: after lock on a valid handle with the USES_ION flag, write-owner is
\* nonzero exactly when the usage has a CPU write bit; without the flag, lock
\* leaves write-owner as it was.
C7_LockWriteOwner ==
    (last.op = "lock" /\ PreValid) =>
        IF PreIonBit
        THEN hnd.writeOwner # 0 <=> (last.usage \div 16) % 16 # 0
        ELSE hnd.writeOwner = last.pre.writeOwner

C7_Witness ==
    /\ last.op = "lock"
    /\ PreValid
    /\ PreIonBit
    /\ last.pre.writeOwner # 0
    /\ last.usage = 3
    /\ hnd.writeOwner = 0

\* C8: unlock of a valid handle calls the cache sync exactly once if the handle
\* has the USES_ION flag, write-owner is nonzero and the module resolves, and
\* not at all otherwise; it returns 0 either way, also when the sync fails.
C8_UnlockSync ==
    (last.op = "unlock" /\ PreValid) =>
        /\ Count(last.trace, "sync") =
              (IF PreIonBit /\ last.pre.writeOwner # 0 /\ last.env # "no_module"
               THEN 1 ELSE 0)
        /\ last.ret = 0

C8_Witness ==
    /\ last.op = "unlock"
    /\ PreValid
    /\ last.trace = <<Ev("hw_get_module", 0), Ev("sync", -1)>>
    /\ last.ret = 0

\* C9: lock of a valid handle returns 0; with a CPU read or write bit in the
\* usage it stores the handle's base in the caller's access pointer, and with
\* neither it leaves the pointer alone. The region plays no part.
C9_LockPointer ==
    (last.op = "lock" /\ PreValid) =>
        /\ last.ret = 0
        /\ last.vout = (IF last.usage % 256 # 0 THEN last.pre.base ELSE last.vin)
        /\ hnd.base = last.pre.base

C9_Witness ==
    /\ last.op = "lock"
    /\ PreValid
    /\ last.usage = 256
    /\ last.region = <<1, 2, 3, 4>>
    /\ last.preReg.phase = "registered"
    /\ last.pre.base # 0
    /\ last.vout = Poison

\* C10: a register call that fails leaves the handle's pid as it was.
C10_FailedRegisterKeepsPid ==
    (last.op = "register" /\ last.ret # 0) => hnd.pid = last.pre.pid

\* the statements register and unregister run between taking and releasing
\* s_map_lock
CriticalPcs == {"r_pid", "r_map", "r_unlock",
                "u_unmap", "u_base", "u_lockState", "u_writeOwner", "u_unlock"}

\* C11: every statement of register and of unregister after the validation (the
\* still-locked check, the framebuffer check, the owner check, the munmap, the
\* three stores) runs while the calling thread holds s_map_lock.
C11_AllStepsUnderMutex ==
    \A t \in Threads :
        pc[t] \in (RegisterPcs \cup UnregisterPcs)
                  \ {"r_validate", "r_mutex", "u_validate", "u_mutex"}
            => s_map_lock = t

\* C12: with the threads of a process calling register and unregister at the
\* same time, at most one of them is between taking and releasing s_map_lock,
\* the mutex is held by exactly the thread that is there, and every call that
\* was begun returns, with the mutex not held by its thread.
C12_MutexSerializes ==
    /\ [](/\ Cardinality({t \in Threads : pc[t] \in CriticalPcs}) <= 1
          /\ \A t \in Threads : s_map_lock = t <=> pc[t] \in CriticalPcs)
    /\ \A t \in Threads :
          (pc[t] # "idle") ~> (pc[t] = "idle" /\ s_map_lock # t)

C12_Witness ==
    \E t, u \in Threads :
        /\ t # u
        /\ pc[t] \in {"u_unmap", "u_base"}
        /\ pc[u] = "r_mutex"
        /\ s_map_lock = t

\* C13: lock and unlock never hold s_map_lock, and each of their statements can
\* run while another thread holds it inside register or unregister.
C13_LockUnlockIgnoreMutex ==
    \A t \in Threads :
        pc[t] \in LockPcs \cup UnlockPcs =>
            /\ s_map_lock # t
            /\ ENABLED LockUnlockStep(t)

\* a thread came back from a lock call that ran while another thread held the
\* mutex inside unregister, with a pointer to a region that is unmapped by now
C13_Witness ==
    \E t, u \in Threads :
        /\ t # u
        /\ pc[t] = "idle"
        /\ loc[t].op = "lock"
        /\ loc[t].under = u
        /\ s_map_lock = u
        /\ pc[u] \in {"u_base", "u_lockState", "u_writeOwner", "u_unlock"}
        /\ loc[t].vaddr \in Addrs
        /\ loc[t].vaddr \notin mapped

\* C14: on a valid handle whose framebuffer flag is set, no entry point does
\* what it does for a heap-backed handle: no map, no munmap, no cache sync, and
\* lock records nothing in write-owner, also when USES_ION is set as well.
C14_FramebufferNeverHeapActions ==
    (/\ last.op \in {"register", "unregister", "lock", "unlock"}
     /\ PreValid
     /\ PreFramebufferBit) =>
        /\ ~Has(last.trace, "map")
        /\ ~Has(last.trace, "munmap")
        /\ ~Has(last.trace, "sync")
        /\ hnd.writeOwner = last.pre.writeOwner

\* C15: lock hands a non-zero pointer to its caller only when the calling
\* process has registered the handle and has not unregistered it since.
C15_PointerOnlyWhenRegistered ==
    (last.op = "lock" /\ last.vout # Poison /\ last.vout # 0) =>
        last.caller \in last.preRegd

\* C16: unregister of a handle that the caller has registered and that has a
\* lock call not yet followed by an unlock logs the still-locked diagnostic,
\* and goes on to unmap the handle, zero it and return 0.
C16_LockedUnregisterDiagnosed ==
    (/\ last.op = "unregister"
     /\ PreValid
     /\ last.preReg = [pid |-> last.caller, phase |-> "registered"]
     /\ last.preHist.outstanding) =>
        /\ \E i \in 1..Len(last.trace) : last.trace[i] = Ev("AERR", 128)
        /\ Has(last.trace, "munmap")
        /\ hnd.base = 0 /\ hnd.lockState = 0 /\ hnd.writeOwner = 0
        /\ last.ret = 0

IonBit == (hnd.flags \div 4) % 2 = 1

\* C17 (as stated): once a handle with USES_ION has been locked, write-owner is
\* nonzero exactly when the latest lock call asked for CPU write access, in
\* every state until the next lock call.
C17_Original ==
    (hist.lastLock # "none" /\ IonBit) =>
        (hnd.writeOwner # 0 <=> hist.lastLock = "write")

\* C17 (amended): once a handle with USES_ION has been locked, write-owner is
\* nonzero exactly when the latest lock call asked for CPU write access and the
\* owner's branch of unregister has not run since; register, unlock and an
\* unregister that does not take the owner's branch leave it as it was.
C17_WriteOwnerTracksLastLock ==
    /\ (hist.lastLock # "none" /\ IonBit) =>
          (hnd.writeOwner # 0 <=> (hist.lastLock = "write" /\ ~hist.cleared))
    /\ (\/ last.op \in {"register", "unlock"}
        \/ last.op = "unregister" /\ ~Has(last.trace, "mutex_lock")) =>
          hnd.writeOwner = last.pre.writeOwner

C17_Witness ==
    /\ last.op = "unregister"
    /\ IonBit
    /\ hist.lastLock = "write"
    /\ hist.cleared
    /\ last.pre.writeOwner # 0
    /\ hnd.writeOwner = 0

\* C18: unlock leaves every field of the handle as it was, on every path; lock
\* changes no field but write-owner; so lock state never changes under lock
\* and unlock, and on a handle with USES_ION every unlock after a lock that
\* asked for CPU write access calls the cache sync (the module resolving),
\* the second unlock as much as the first.
C18_LockUnlockFrame ==
    /\ last.op = "unlock" => hnd = last.pre
    /\ last.op = "lock" => hnd = [last.pre EXCEPT !.writeOwner = hnd.writeOwner]
    /\ (/\ last.op = "unlock"
        /\ PreValid
        /\ PreIonBit
        /\ last.preHist.lastLock = "write"
        /\ ~last.preHist.cleared
        /\ last.env # "no_module") => Count(last.trace, "sync") = 1

C18_Witness ==
    /\ last.op = "unlock"
    /\ PreValid
    /\ last.preHist.lastLock = "write"
    /\ ~last.preHist.outstanding
    /\ ~last.preHist.cleared
    /\ last.pre.lockState # 0
    /\ Has(last.trace, "sync")

\* C19: on a valid handle lock and unlock return 0 whatever calls came before:
\* not registered, registered, locked, locked twice, unlocked without a lock
\* or twice.
C19_NeverRejected ==
    (last.op \in {"lock", "unlock"} /\ PreValid) => last.ret = 0

\* a second lock with no unlock in between, on a handle its owner has unmapped
C19_Witness ==
    /\ last.op = "lock"
    /\ PreValid
    /\ last.preHist.outstanding
    /\ last.preReg.phase = "unregistered"
    /\ last.pre.base = 0
    /\ last.ret = 0

====
